---- MODULE Spec2Model ----
(***************************************************************************)
(* A model of the PKCS#11 engine front end, src/src/e_pkcs11_eng.c: the    *)
(* URI parser (urldecode, pkcs11_pad, pin_from_file, pkcs11_parse_items,   *)
(* pkcs11_parse), the control commands and the resolution operations that  *)
(* drive the token module (load private/public key, load-cert control,     *)
(* client-certificate selection, store open/load/eof/close), pkcs11_init   *)
(* and pkcs11_finish, and two threads running a key load on the one engine *)
(* context.                                                                *)
(*                                                                         *)
(* C strings are sequences of byte values; a buffer carries its            *)
(* terminating NUL.  A NULL pointer is the sequence NULL.  The token       *)
(* module, the prompt and the file system are collaborators whose results  *)
(* are chosen nondeterministically; every call made to them is recorded in *)
(* the call log of the operation.                                          *)
(***************************************************************************)
EXTENDS Integers, Sequences, FiniteSets, TLC

(***************************************************************************)
(* Bytes and C strings                                                     *)
(***************************************************************************)

\* The printable ASCII characters from '#' (35) to '[' (91) and from 'a' (97)
\* to '~' (126), in code order.
AsciiMid == "#$%&'()*+,-./0123456789:;<=>?@ABCDEFGHIJKLMNOPQRSTUVWXYZ["
AsciiHi == "abcdefghijklmnopqrstuvwxyz{|}~"

\* The byte value of a one-character string.
CharCode(c) ==
    IF c = " " THEN 32
    ELSE IF c = "!" THEN 33
    ELSE IF \E i \in 1..Len(AsciiMid) : SubSeq(AsciiMid, i, i) = c
         THEN 34 + (CHOOSE i \in 1..Len(AsciiMid) : SubSeq(AsciiMid, i, i) = c)
    ELSE 96 + (CHOOSE i \in 1..Len(AsciiHi) : SubSeq(AsciiHi, i, i) = c)

\* The bytes of a string literal, without terminator.
Bytes(s) == [i \in 1..Len(s) |-> CharCode(SubSeq(s, i, i))]

NUL == 0
SPACE == 32
PERCENT == 37
SEMI == 59

\* A NULL pointer: no byte string holds -1.
NULL == <<-1>>

\* A caller's buffer holding the string s: its bytes and the terminating NUL.
Buffer(s) == Bytes(s) \o <<NUL>>

\* Index of the first NUL of b at or after position i (Len(b)+1 when none).
RECURSIVE FirstNul(_, _)
FirstNul(b, i) ==
    IF i > Len(b) THEN i
    ELSE IF b[i] = NUL THEN i
    ELSE FirstNul(b, i + 1)

\* The C string starting at position i of b: the bytes before the first NUL.
CStrAt(b, i) == SubSeq(b, i, FirstNul(b, i) - 1)
CStr(b) == CStrAt(b, 1)

\* strlen(3).
strlen(b) == Len(CStr(b))

\* strncmp(s, key, Len(key)) == 0, for a C string s.
HasPrefix(s, key) ==
    /\ Len(s) >= Len(key)
    /\ SubSeq(s, 1, Len(key)) = key

\* The string past its first n bytes (p += n).
Skip(s, n) == SubSeq(s, n + 1, Len(s))

\* isxdigit(3) and OPENSSL_hexchar2int.
isxdigit(c) ==
    \/ c \in 48..57
    \/ c \in 65..70
    \/ c \in 97..102

hexchar2int(c) ==
    IF c \in 48..57 THEN c - 48
    ELSE IF c \in 65..70 THEN c - 55
    ELSE c - 87

isdigit(c) == c \in 48..57

(***************************************************************************)
(* urldecode: the bytes written to the output buffer, or NULL when a '%'   *)
(* is not followed by two hex digits.  p is a C string (no NUL inside);    *)
(* the byte after its end is the terminator, which is no hex digit.        *)
(***************************************************************************)
RECURSIVE urldecode_from(_, _, _)
urldecode_from(p, i, out) ==
    IF i > Len(p) THEN out
    ELSE IF p[i] # PERCENT THEN urldecode_from(p, i + 1, Append(out, p[i]))
    ELSE IF /\ i + 2 <= Len(p)
            /\ isxdigit(p[i + 1])
            /\ isxdigit(p[i + 2])
         THEN urldecode_from(p, i + 3,
                  Append(out, hexchar2int(p[i + 1]) * 16 + hexchar2int(p[i + 2])))
    ELSE NULL

urldecode(p) == urldecode_from(p, 1, <<>>)

(***************************************************************************)
(* pkcs11_pad: len spaces, overwritten by the bytes of field up to its     *)
(* first NUL or to len bytes.  field is the buffer urldecode wrote (it may *)
(* hold a decoded NUL).                                                    *)
(***************************************************************************)
pkcs11_pad(field, len) ==
    LET s == CStr(field)
    IN [i \in 1..len |-> IF i <= Len(s) THEN s[i] ELSE SPACE]

\* atoi(3) on an unsigned decimal prefix: the value of the leading digits.
RECURSIVE atoi_from(_, _, _)
atoi_from(s, i, acc) ==
    IF i > Len(s) \/ ~isdigit(s[i]) THEN acc
    ELSE atoi_from(s, i + 1, acc * 10 + (s[i] - 48))

atoi(s) == atoi_from(s, 1, 0)

(***************************************************************************)
(* The engine context (PKCS11_CTX) and the collaborators of the parser     *)
(***************************************************************************)

\* Widths of the fixed-width token descriptor fields.
TokenWidth == 32
ModelWidth == 16

Zeros(n) == [i \in 1..n |-> NUL]

\* pkcs11_ctx_new: a zeroed context.
FreshCtx ==
    [id |-> NULL, idlen |-> 0, label |-> NULL, type |-> NULL,
     module_path |-> NULL, pin |-> NULL, pinlen |-> 0, slotid |-> 0,
     token |-> Zeros(TokenWidth), manufacturer |-> Zeros(TokenWidth),
     model |-> Zeros(ModelWidth), serial |-> Zeros(ModelWidth)]

\* Return codes; CRASH stands for a run that never returns (the process died
\* on a NULL dereference).
CRASH == -1

\* One call to a collaborator: its name, the argument that matters and
\* whether it succeeded.
Call(fn, arg, ok) == [fn |-> fn, arg |-> arg, ok |-> ok]

\* The PIN files of the file system: name -> content.
NEWLINE == 10
PinFiles == {[name |-> Bytes("/pin"), content |-> Bytes("4321") \o <<NEWLINE>>]}

\* BIO_new_file + BIO_gets: the first line of the file with its newline, or
\* nothing when the file cannot be opened or is empty.
RECURSIVE FirstLine(_, _)
FirstLine(content, i) ==
    IF i > Len(content) THEN content
    ELSE IF content[i] = NEWLINE THEN SubSeq(content, 1, i)
    ELSE FirstLine(content, i + 1)

BIO_gets(filename) ==
    IF \E f \in PinFiles : f.name = filename
    THEN FirstLine((CHOOSE f \in PinFiles : f.name = filename).content, 1)
    ELSE <<>>

\* strchr(buf, '\n') then truncate.
RECURSIVE TruncateAtNewline(_, _)
TruncateAtNewline(line, i) ==
    IF i > Len(line) THEN line
    ELSE IF line[i] = NEWLINE THEN SubSeq(line, 1, i - 1)
    ELSE TruncateAtNewline(line, i + 1)

\* pin_from_file: the first line of the file without its newline, or NULL.
pin_from_file(filename) ==
    LET line == BIO_gets(filename)
    IN IF Len(line) <= 0 THEN NULL ELSE TruncateAtNewline(line, 1)

\* Reading through a NULL pointer is undefined: the run dies, or goes on as
\* if the pointer held an empty string.
StrlenOutcomes(s) == IF s = NULL THEN {CRASH, 0} ELSE {strlen(s)}

PadOutcomes(field, len) ==
    IF field = NULL THEN {NULL, pkcs11_pad(<<>>, len)}
    ELSE {pkcs11_pad(field, len)}

(***************************************************************************)
(* pkcs11_parse_items                                                      *)
(***************************************************************************)

K_scheme == Bytes("pkcs11:")
K_pin_value == Bytes("pin-value=")
K_pin_source == Bytes("pin-source=")
K_file == Bytes("file:")
K_object == Bytes("object=")
K_model == Bytes("model=")
K_serial == Bytes("serial=")
K_token == Bytes("token=")
K_manufacturer == Bytes("manufacturer=")
K_id == Bytes("id=")
K_type == Bytes("type=")
K_module_path == Bytes("module-path=")
K_slot_id == Bytes("slot-id=")
K_private == Bytes("private")

\* The two PIN conditions with the "ctx->pin == NULL" test dropped: every
\* PIN-bearing segment would then overwrite the PIN.
PinValueAlways(ctx, seg) == HasPrefix(seg, K_pin_value)
PinSourceAlways(ctx, seg) == HasPrefix(seg, K_pin_source)

\* The conditions of the else-if chain that carry a guard on the context.
PinValueApplies(ctx, seg) ==
    HasPrefix(seg, K_pin_value) /\ ctx.pin = NULL
PinSourceApplies(ctx, seg) ==
    HasPrefix(seg, K_pin_source) /\ ctx.pin = NULL
ObjectApplies(ctx, seg) == HasPrefix(seg, K_object) /\ ctx.label = NULL
IdApplies(ctx, seg) == HasPrefix(seg, K_id) /\ ctx.id = NULL
TypeApplies(ctx, seg) == HasPrefix(seg, K_type) /\ ctx.type = NULL
ModulePathApplies(ctx, seg) ==
    HasPrefix(seg, K_module_path) /\ ctx.module_path = NULL
SlotIdApplies(ctx, seg) == HasPrefix(seg, K_slot_id) /\ ctx.slotid = 0

\* The result of a step of the parser: the context, the calls made, the
\* last trace message and the return code (1 to go on, 0 for "goto err").
Step(ctx, calls, trace, ret) ==
    [ctx |-> ctx, calls |-> calls, trace |-> trace, ret |-> ret]

\* A padded field: memcpy(ctx->field, pkcs11_pad(urldecode(p), w), w).
PaddedStep(ctx, field, val, w) ==
    {IF pad = NULL THEN Step(ctx, <<>>, "", CRASH)
     ELSE Step([ctx EXCEPT ![field] = pad], <<>>, "", 1)
       : pad \in PadOutcomes(urldecode(val), w)}

\* The body of the "found" branch for the segment seg (a C string): every
\* outcome of the else-if chain.
parse_item(ctx, seg) ==
    IF PinValueApplies(ctx, seg) THEN
        LET pin == Skip(seg, Len(K_pin_value))
        IN {Step([ctx EXCEPT !.pin = pin, !.pinlen = strlen(pin)], <<>>, "", 1)}
    ELSE IF PinSourceApplies(ctx, seg) THEN
        LET src == Skip(seg, Len(K_pin_source))
        IN IF HasPrefix(src, K_file) THEN
               LET filename == Skip(src, Len(K_file))
                   pin == pin_from_file(filename)
                   calls == <<Call("pin_from_file", filename, pin # NULL)>>
               IN IF pin = NULL
                  THEN {Step([ctx EXCEPT !.pin = NULL], calls,
                             "Can't read PIN from", 0)}
                  ELSE {Step([ctx EXCEPT !.pin = pin, !.pinlen = strlen(pin)],
                             calls, "", 1)}
           ELSE {Step(ctx, <<>>, "file source only supported", 0)}
    ELSE IF ObjectApplies(ctx, seg) THEN
        {Step([ctx EXCEPT !.label = urldecode(Skip(seg, Len(K_object)))],
              <<>>, "", 1)}
    ELSE IF HasPrefix(seg, K_model) THEN
        PaddedStep(ctx, "model", Skip(seg, Len(K_model)), ModelWidth)
    ELSE IF HasPrefix(seg, K_serial) THEN
        PaddedStep(ctx, "serial", Skip(seg, Len(K_serial)), ModelWidth)
    ELSE IF HasPrefix(seg, K_token) THEN
        PaddedStep(ctx, "token", Skip(seg, Len(K_token)), TokenWidth)
    ELSE IF HasPrefix(seg, K_manufacturer) THEN
        PaddedStep(ctx, "manufacturer", Skip(seg, Len(K_manufacturer)),
                   TokenWidth)
    ELSE IF IdApplies(ctx, seg) THEN
        LET id == urldecode(Skip(seg, Len(K_id)))
        IN {IF n = CRASH THEN Step([ctx EXCEPT !.id = id], <<>>, "", CRASH)
            ELSE Step([ctx EXCEPT !.id = id, !.idlen = n], <<>>, "", 1)
              : n \in StrlenOutcomes(id)}
    ELSE IF TypeApplies(ctx, seg) THEN
        {Step([ctx EXCEPT !.type = Skip(seg, Len(K_type))], <<>>, "", 1)}
    ELSE IF ModulePathApplies(ctx, seg) THEN
        {Step([ctx EXCEPT !.module_path =
                  urldecode(Skip(seg, Len(K_module_path)))], <<>>, "", 1)}
    ELSE IF SlotIdApplies(ctx, seg) THEN
        {Step([ctx EXCEPT !.slotid = atoi(Skip(seg, Len(K_slot_id)))],
              <<>>, "", 1)}
    ELSE {Step(ctx, <<>>, "", 1)}

\* The scan of pkcs11_parse_items over the buffer buf, whose string starts at
\* index uri and is len bytes long: p and q are the two cursors.  Every ';'
\* and the final NUL that end a non-empty segment are overwritten by NUL in
\* the caller's buffer.  The result is the set of outcomes, each with the
\* buffer as it is left.
RECURSIVE parse_items_scan(_, _, _, _, _, _, _)
parse_items_scan(ctx, buf, calls, uri, len, p, q) ==
    IF ~(q - uri <= len)
    THEN {[ctx |-> ctx, buf |-> buf, calls |-> calls, trace |-> "", ret |-> 1]}
    ELSE IF buf[q] # SEMI /\ buf[q] # NUL
    THEN parse_items_scan(ctx, buf, calls, uri, len, p, q + 1)
    ELSE IF p = q
    THEN parse_items_scan(ctx, buf, calls, uri, len, q + 1, q + 1)
    ELSE LET cut == [buf EXCEPT ![q] = NUL]
         IN UNION {IF r.ret = 1
                   THEN parse_items_scan(r.ctx, cut, calls \o r.calls,
                                         uri, len, q + 1, q + 1)
                   ELSE {[ctx |-> r.ctx, buf |-> cut,
                          calls |-> calls \o r.calls,
                          trace |-> r.trace, ret |-> r.ret]}
                     : r \in parse_item(ctx, CStrAt(cut, p))}

\* pkcs11_parse_items(ctx, uri, store), uri pointing at index uri of buf.
pkcs11_parse_items(ctx, buf, uri) ==
    parse_items_scan(ctx, buf, <<>>, uri, Len(CStrAt(buf, uri)), uri, uri)

(***************************************************************************)
(* pkcs11_parse                                                            *)
(***************************************************************************)

\* pkcs11_get_console_pin: the PIN typed at the prompt, or NULL when the
\* prompt fails or is cancelled.
PromptPin == Bytes("0000")
PromptOutcomes == {NULL, PromptPin}

\* The outcome of a parse: the context, the caller's buffer, the calls made,
\* the last trace message and the return code.
Parsed(ctx, buf, calls, trace, ret) ==
    [ctx |-> ctx, buf |-> buf, calls |-> calls, trace |-> trace, ret |-> ret]

\* "if (ctx->id == NULL && ctx->label == NULL && !store)".
SelectorMissing(ctx, store) ==
    ctx.id = NULL /\ ctx.label = NULL /\ store = 0

\* A prompt that ignores the context and the type: asked whenever no PIN is
\* set.
PromptWheneverNoPin(ctx, store) == ctx.pin = NULL

\* The condition under which the PIN prompt is invoked.
PromptNeeded(ctx, store) ==
    /\ ctx.pin = NULL
    /\ \/ store = 0
       \/ /\ store # 0
          /\ ctx.type # NULL
          /\ HasPrefix(CStr(ctx.type), K_private)

\* A parser that reads the segments of every string, scheme or not.
parse_criteria_as_uri(ctx, path, store) ==
    pkcs11_parse_items(ctx, path, 1)

\* The first half of pkcs11_parse: the segments of a pkcs11: URI with the
\* selector check, or the bare identifier.
parse_criteria(ctx, path, store) ==
    IF HasPrefix(CStr(path), K_scheme) THEN
        {IF r.ret = 1 /\ SelectorMissing(r.ctx, store)
         THEN [r EXCEPT !.ret = 0, !.trace = "ID and OBJECT are null"]
         ELSE r
           : r \in pkcs11_parse_items(ctx, path, Len(K_scheme) + 1)}
    ELSE
        LET id == urldecode(CStr(path))
        IN {IF n = CRASH
            THEN Parsed([ctx EXCEPT !.id = id], path, <<>>, "", CRASH)
            ELSE Parsed([ctx EXCEPT !.id = id, !.idlen = n], path, <<>>, "", 1)
              : n \in StrlenOutcomes(id)}

\* The module path fallback: the environment variable PKCS11_MODULE_PATH.
parse_module_path(r, env) ==
    IF r.ctx.module_path # NULL THEN r
    ELSE LET calls == r.calls \o <<Call("getenv", NULL, env # NULL)>>
         IN IF env = NULL
            THEN [r EXCEPT !.ctx.module_path = NULL, !.calls = calls,
                           !.trace = "Module path is null", !.ret = 0]
            ELSE [r EXCEPT !.ctx.module_path = env, !.calls = calls]

\* The PIN prompt at the end of pkcs11_parse.
parse_pin(r, store) ==
    IF ~PromptNeeded(r.ctx, store) THEN {r}
    ELSE {LET calls == r.calls \o <<Call("get_console_pin", NULL, pin # NULL)>>
          IN IF pin = NULL
             THEN [r EXCEPT !.calls = calls, !.trace = "PIN is invalid",
                            !.ret = 0]
             ELSE [r EXCEPT !.ctx.pin = pin, !.ctx.pinlen = strlen(pin),
                            !.calls = calls]
            : pin \in PromptOutcomes}

\* pkcs11_parse(ctx, path, store) with the environment env: every outcome.
pkcs11_parse(ctx, path, store, env) ==
    IF path = NULL THEN {Parsed(ctx, path, <<>>, "URI is empty", 0)}
    ELSE UNION {IF r.ret # 1 THEN {r}
                ELSE LET m == parse_module_path(r, env)
                     IN IF m.ret # 1 THEN {m} ELSE parse_pin(m, store)
                  : r \in parse_criteria(ctx, path, store)}

(***************************************************************************)
(* The inputs: the strings callers pass, the values of the controls and of *)
(* the environment                                                         *)
(***************************************************************************)

UriStrings ==
    {"pkcs11:id=01;id=02;module-path=/m;pin-value=1111",
     "pkcs11:module-path=/m;object=%G1;object=ab",
     "pkcs11:id=01;module-path=/m;pin-value=1111;pin-source=file:/pin",
     "pkcs11:id=01;module-path=/m;pin-source=file:/pin;pin-value=1111",
     "pkcs11:id=01;module-path=/m;pin-source=file:/none;pin-value=1111",
     "pkcs11:module-path=/m;token=A;token=B;slot-id=0;slot-id=5",
     "pkcs11:id=;module-path=/m;pin-value=1111",
     "pkcs11:object=test;type=private",
     "pkcs11:id=%G1;module-path=/m;pin-value=1111",
     "pkcs11:",
     "deadbeef"}

\* The buffers a caller passes: each string in a buffer of its own, or no
\* string at all.
Catalog == {Buffer(u) : u \in UriStrings} \cup {NULL}

CtlPaths == {Bytes("/c")}
CtlPins == {Bytes("9999")}
EnvPaths == {Bytes("/e")}

\* The caller makes at most MaxOps calls that set up or start a resolution
\* (a change of the environment, a control, an operation carrying a URI), and
\* at most MaxStoreCtx store contexts are open at a time.
MaxOps == 2
MaxStoreCtx == 1

\* At most MaxCertOps certificate operations (load-cert control, client
\* certificate selection) run, over a token that holds at most MaxCerts
\* certificates.
MaxCertOps == 1
MaxCerts == 2

\* At most MaxLifeCalls calls of pkcs11_init and pkcs11_finish are made.
MaxLifeCalls == 2

(***************************************************************************)
(* State                                                                   *)
(***************************************************************************)

VARIABLES
    ctx,      \* the engine's PKCS11_CTX
    env,      \* the value of PKCS11_MODULE_PATH, or NULL
    ctl,      \* the values last set through the controls
    path,     \* the buffer passed to the last operation, as it was left
    closes,   \* closes[h]: how often session h was closed; handles are 1..Len
    stores,   \* the open store contexts (OSSL_STORE_LOADER_CTX)
    last,     \* the last resolution operation: inputs, calls and result
    nops,     \* calls counted against MaxOps so far
    registered, \* whether the store loader is registered for the scheme
    ncert,    \* certificate operations counted against MaxCertOps so far
    sel,      \* what the last client-certificate selection was given and gave
    pc,       \* pc[t]: the position of thread t in its key load
    req,      \* req[t]: what thread t parsed and what it then read
    life      \* the lifetime of the context and of the members it points to

vars == <<ctx, env, ctl, path, closes, stores, last, nops, registered, ncert,
          sel, pc, req, life>>

\* The state that only the certificate operations and the threads change.
certvars == <<ncert, sel>>
threadvars == <<pc, req>>
lifevars == <<life>>

\* The threads that call into one engine.
Threads == {1, 2}

\* Before any client-certificate selection: nothing given, nothing handed out.
NoSelection ==
    [ca_dn |-> <<>>, certs |-> <<>>, fetched |-> 0, pcert |-> <<>>,
     pkey |-> "NULL", ret |-> 0]

\* After the first pkcs11_init: the context was created once and is attached
\* to the engine, its lock is live, none of the members pkcs11_ctx_free
\* releases has been released (dangling: released and still pointed to;
\* twice: released while already released) and no released memory was read.
\* ncalls counts the calls of pkcs11_init and pkcs11_finish.
Attached ==
    [attached |-> TRUE, created |-> 1, lock |-> "live", dangling |-> {},
     twice |-> {}, touched |-> FALSE, ncalls |-> 0]

\* A thread that has not parsed yet.
NoRequest == [own |-> FreshCtx, seen |-> <<>>]

NoOp ==
    [op |-> "none", uri |-> NULL, store |-> 0, env |-> NULL,
     ctl |-> [module_path |-> NULL, pin |-> NULL],
     pre |-> FreshCtx, parsed |-> FreshCtx, pret |-> 0, trace |-> "",
     calls |-> <<>>, ret |-> 0, result |-> "none", session |-> 0]

Init ==
    /\ ctx = FreshCtx
    /\ env = NULL
    /\ ctl = [module_path |-> NULL, pin |-> NULL]
    /\ path = NULL
    /\ closes = <<>>
    /\ stores = <<>>
    /\ last = NoOp
    /\ nops = 0
    /\ registered = TRUE
    /\ ncert = 0
    /\ sel = NoSelection
    /\ pc = [t \in Threads |-> "idle"]
    /\ req = [t \in Threads |-> NoRequest]
    /\ life = Attached

\* No operation runs once the process has died.
Alive == last.ret # CRASH

(***************************************************************************)
(* The environment and pkcs11_ctrl                                         *)
(***************************************************************************)

SetEnv(v) ==
    /\ Alive
    /\ nops < MaxOps
    /\ nops' = nops + 1
    /\ env' = v
    /\ UNCHANGED <<ctx, ctl, path, closes, stores, last, registered>>
    /\ UNCHANGED <<certvars, threadvars, lifevars>>

\* PKCS11_CMD_MODULE_PATH.
CtrlModulePath(v) ==
    /\ Alive
    /\ nops < MaxOps
    /\ nops' = nops + 1
    /\ ctx' = [ctx EXCEPT !.module_path = v]
    /\ ctl' = [ctl EXCEPT !.module_path = v]
    /\ UNCHANGED <<env, path, closes, stores, last, registered>>
    /\ UNCHANGED <<certvars, threadvars, lifevars>>

\* PKCS11_CMD_PIN.
CtrlPin(v) ==
    /\ Alive
    /\ nops < MaxOps
    /\ nops' = nops + 1
    /\ ctx' = [ctx EXCEPT !.pin = v, !.pinlen = strlen(v)]
    /\ ctl' = [ctl EXCEPT !.pin = v]
    /\ UNCHANGED <<env, path, closes, stores, last, registered>>
    /\ UNCHANGED <<certvars, threadvars, lifevars>>

(***************************************************************************)
(* The token module: which call of a run fails                             *)
(***************************************************************************)

\* A run that goes on after a failed call instead of "goto err".
ExecutedPastFailure(steps, fail) == steps

\* The calls of a run in order; fail = 0 when none fails, else the index of
\* the call that fails and ends the run.
Executed(steps, fail) ==
    IF fail = 0 THEN steps ELSE SubSeq(steps, 1, fail)

RunCalls(steps, args, fail) ==
    [i \in 1..Len(Executed(steps, fail)) |->
        Call(steps[i], args[i], i # fail)]

\* Whether the call named fn was made and succeeded.
Succeeded(calls, fn) ==
    \E i \in 1..Len(calls) : calls[i].fn = fn /\ calls[i].ok

Made(calls, fn) == \E i \in 1..Len(calls) : calls[i].fn = fn

\* The number of calls named fn.
Count(calls, fn) == Cardinality({i \in 1..Len(calls) : calls[i].fn = fn})

\* The calls that read the id and the label the context points to.
CriteriaReaders == {"find_private_key", "find_public_key", "search_start"}

ReadsCriteria(calls) == \E i \in 1..Len(calls) : calls[i].fn \in CriteriaReaders

\* The lifetime state after an operation that parsed b and made calls: a
\* string without the scheme stores a new id (whatever ctx->id held), a
\* pkcs11: URI stores id and label only where the pointer is NULL, so a
\* released id or label stays; the calls that read them read released
\* memory.  While nothing is released, nothing changes.
life_after(l, b, calls) ==
    IF l.dangling = {} THEN l
    ELSE LET dangling == IF b # NULL /\ ~HasPrefix(CStr(b), K_scheme)
                         THEN l.dangling \ {"id"} ELSE l.dangling
         IN [l EXCEPT !.dangling = dangling,
                      !.touched = @ \/ (dangling # {} /\ ReadsCriteria(calls))]

\* pkcs11_start_session hands out a new session handle.
NewSession == Len(closes) + 1

(***************************************************************************)
(* pkcs11_engine_load_private_key and pkcs11_engine_load_public_key        *)
(***************************************************************************)

KeyLoadSteps(find) ==
    <<"initialize", "get_slot", "start_session", "login", find, "load_pkey">>

KeyLoadArgs(c) == <<c.module_path, NULL, NULL, c.pin, c.id, NULL>>

\* The calls made after a successful parse: every failure is "goto err",
\* which returns NULL and releases nothing.
key_load_calls(c, find, fail) ==
    RunCalls(KeyLoadSteps(find), KeyLoadArgs(c), fail)

LoadKey(op, find, b) ==
    /\ Alive
    /\ nops < MaxOps
    /\ \E r \in pkcs11_parse(ctx, b, 0, env) :
         \E fail \in (IF r.ret = 1 THEN 0..Len(KeyLoadSteps(find)) ELSE {0}) :
            LET calls == IF r.ret = 1
                         THEN r.calls \o key_load_calls(r.ctx, find, fail)
                         ELSE r.calls
                opened == Succeeded(calls, "start_session")
            IN /\ ctx' = r.ctx
               /\ path' = r.buf
               /\ closes' = IF opened THEN Append(closes, 0) ELSE closes
               /\ last' = [op |-> op, uri |-> b, store |-> 0, env |-> env,
                           ctl |-> ctl, pre |-> ctx, parsed |-> r.ctx,
                           pret |-> r.ret, trace |-> r.trace, calls |-> calls,
                           ret |-> IF r.ret = CRASH THEN CRASH
                                   ELSE IF r.ret = 1 /\ fail = 0 THEN 1 ELSE 0,
                           result |-> IF r.ret = 1 /\ fail = 0
                                      THEN "PKEY" ELSE "NULL",
                           session |-> IF opened THEN NewSession ELSE 0]
               /\ life' = life_after(life, b, calls)
    /\ nops' = nops + 1
    /\ UNCHANGED <<env, ctl, stores, registered, certvars, threadvars>>

pkcs11_engine_load_private_key(b) ==
    LoadKey("load_private_key", "find_private_key", b)

pkcs11_engine_load_public_key(b) ==
    LoadKey("load_public_key", "find_public_key", b)

(***************************************************************************)
(* The store loader: pkcs11_store_open, _load, _eof, _close                *)
(***************************************************************************)

\* The object classes a search can meet.
Classes == {"CKO_CERTIFICATE", "CKO_PUBLIC_KEY", "CKO_PRIVATE_KEY"}

\* OSSL_STORE_LOADER_CTX_new, with the session and the list flag given by
\* pkcs11_store_open.  drained records that the token's enumeration has
\* reported its end.
StoreCtx(session, listflag) ==
    [session |-> session, listflag |-> listflag, eof |-> 0, drained |-> FALSE]

StoreOpenSteps == <<"initialize", "get_slot", "start_session", "search_start">>

StoreOpenArgs(c) == <<c.module_path, NULL, NULL, NULL>>

\* The calls of pkcs11_store_open after a successful parse: every failure
\* is "goto err", which frees the store context and nothing else.
store_open_calls(c, fail) == RunCalls(StoreOpenSteps, StoreOpenArgs(c), fail)

\* A list flag that looks at the label only.
ListFlagByLabel(c) == IF c.label = NULL THEN 1 ELSE 0

\* "if (pkcs11_ctx->label == NULL && pkcs11_ctx->id == NULL) listflag = 1".
ListFlag(c) == IF c.label = NULL /\ c.id = NULL THEN 1 ELSE 0

\* OSSL_STORE_LOADER_CTX_free: besides freeing the store context it
\* unregisters the loader of the scheme.
OSSL_STORE_LOADER_CTX_free == FALSE

\* The host library routes a URI to pkcs11_store_open only while the loader
\* is registered for the scheme.
pkcs11_store_open(b) ==
    /\ Alive
    /\ registered
    /\ nops < MaxOps
    /\ Len(stores) < MaxStoreCtx
    /\ \E r \in pkcs11_parse(ctx, b, 1, env) :
         \E fail \in (IF r.ret = 1 THEN 0..Len(StoreOpenSteps) ELSE {0}) :
            LET calls == IF r.ret = 1
                         THEN r.calls \o store_open_calls(r.ctx, fail)
                         ELSE r.calls
                opened == Succeeded(calls, "start_session")
                ok == r.ret = 1 /\ fail = 0
            IN /\ ctx' = r.ctx
               /\ path' = r.buf
               /\ closes' = IF opened THEN Append(closes, 0) ELSE closes
               /\ stores' = IF ok
                            THEN Append(stores,
                                        StoreCtx(NewSession, ListFlag(r.ctx)))
                            ELSE stores
               /\ last' = [op |-> "store_open", uri |-> b, store |-> 1,
                           env |-> env, ctl |-> ctl, pre |-> ctx,
                           parsed |-> r.ctx, pret |-> r.ret,
                           trace |-> r.trace, calls |-> calls,
                           ret |-> IF r.ret = CRASH THEN CRASH
                                   ELSE IF ok THEN 1 ELSE 0,
                           result |-> IF ok THEN "CTX" ELSE "NULL",
                           session |-> IF opened THEN NewSession ELSE 0]
               /\ registered' = IF ok \/ r.ret = CRASH THEN registered
                                 ELSE OSSL_STORE_LOADER_CTX_free
               /\ life' = life_after(life, b, calls)
    /\ nops' = nops + 1
    /\ UNCHANGED <<env, ctl, certvars, threadvars>>

\* pkcs11_search_next_ids and pkcs11_search_next_object: the end of the
\* enumeration (eof 1), or an object of some class (eof 0).  Once drained,
\* the enumeration only reports its end.
SearchOutcomes(drained) ==
    {[eof |-> 1, class |-> "none"]}
    \cup (IF drained THEN {} ELSE {[eof |-> 0, class |-> c] : c \in Classes})

\* A load that hands out a name entry whatever the search reported.
store_load_always_name(listflag, o) == "NAME"

\* What pkcs11_store_load returns for a search outcome.
store_load_result(listflag, o) ==
    IF listflag # 0
    THEN IF o.eof = 0 THEN "NAME" ELSE "NULL"
    ELSE IF o.eof # 0 THEN "NULL"
    ELSE IF o.class = "CKO_CERTIFICATE" THEN "CERT"
    ELSE IF o.class = "CKO_PUBLIC_KEY" THEN "PKEY"
    ELSE "NULL"

pkcs11_store_load(i) ==
    /\ Alive
    /\ \E o \in SearchOutcomes(stores[i].drained) :
         /\ stores' = [stores EXCEPT ![i].eof = o.eof,
                                     ![i].drained = (o.eof # 0)]
         /\ last' = [NoOp EXCEPT
                       !.op = "store_load", !.store = 1,
                       !.calls = <<Call(IF stores[i].listflag # 0
                                        THEN "search_next_ids"
                                        ELSE "search_next_object",
                                        <<stores[i].session>>, o.eof = 0)>>,
                       !.ret = 1,
                       !.result = store_load_result(stores[i].listflag, o),
                       !.session = stores[i].session]
    /\ UNCHANGED <<ctx, env, ctl, path, closes, nops, registered>>
    /\ UNCHANGED <<certvars, threadvars, lifevars>>

\* The sequence s without its i-th element.
Remove(s, i) == SubSeq(s, 1, i - 1) \o SubSeq(s, i + 1, Len(s))

pkcs11_store_close(i) ==
    /\ Alive
    /\ closes' = [closes EXCEPT ![stores[i].session] = @ + 1]
    /\ stores' = Remove(stores, i)
    /\ last' = [NoOp EXCEPT
                  !.op = "store_close", !.store = 1,
                  !.calls = <<Call("end_session", <<stores[i].session>>, TRUE)>>,
                  !.ret = 1, !.session = stores[i].session]
    /\ registered' = OSSL_STORE_LOADER_CTX_free
    /\ UNCHANGED <<ctx, env, ctl, path, nops, certvars, threadvars, lifevars>>

\* pkcs11_store_eof: the eof field of the store context.
pkcs11_store_eof(i) ==
    /\ Alive
    /\ last' = [NoOp EXCEPT
                  !.op = "store_eof", !.store = 1,
                  !.ret = stores[i].eof, !.session = stores[i].session]
    /\ UNCHANGED <<ctx, env, ctl, path, closes, stores, nops, registered>>
    /\ UNCHANGED <<certvars, threadvars, lifevars>>

(***************************************************************************)
(* pkcs11_engine_load_cert (PKCS11_CMD_LOAD_CERT_CTRL)                     *)
(***************************************************************************)

\* The strings handed to the load-cert control.
CertUris == {"pkcs11:module-path=/m;object=ab", "pkcs11:object=ab"}
CertBuffers == {Buffer(u) : u \in CertUris}

\* "CK_OBJECT_CLASS class" is read after pkcs11_search_next_object whatever
\* that call returned: at the end of the enumeration it was never written
\* and holds any value.
ClassRead(o) == IF o.eof = 0 THEN {o.class} ELSE Classes \cup {"garbage"}

\* The calls of pkcs11_engine_load_cert after a successful parse, cleanup
\* included; fail = 0 when initialize, get_slot, start_session and
\* search_start all succeed.
LoadCertSteps == <<"initialize", "get_slot", "start_session", "search_start">>

load_cert_calls(c, fail, session, o) ==
    LET run == RunCalls(LoadCertSteps, StoreOpenArgs(c), fail)
        next == IF fail = 0
                THEN <<Call("search_next_object", <<session>>, o.eof = 0)>>
                ELSE <<>>
        cleanup == IF fail = 1 THEN <<>>
                   ELSE IF fail = 2 THEN <<Call("finalize", NULL, TRUE)>>
                   ELSE <<Call("end_session", <<session>>, fail # 3),
                          Call("finalize", NULL, TRUE)>>
    IN run \o next \o cleanup

pkcs11_engine_load_cert(b) ==
    /\ Alive
    /\ ncert < MaxCertOps
    /\ \E r \in pkcs11_parse(ctx, b, 1, env) :
         \E fail \in (IF r.ret = 1 THEN 0..Len(LoadCertSteps) ELSE {0}) :
          \E o \in SearchOutcomes(FALSE) :
           \E class \in ClassRead(o) :
            LET opened == r.ret = 1 /\ (fail = 0 \/ fail > 3)
                session == IF opened THEN NewSession ELSE 0
                calls == IF r.ret = 1
                         THEN r.calls \o load_cert_calls(r.ctx, fail, session, o)
                         ELSE r.calls
                found == r.ret = 1 /\ fail = 0 /\ class = "CKO_CERTIFICATE"
            IN /\ ctx' = IF opened THEN [r.ctx EXCEPT !.type = Bytes("cert")]
                         ELSE r.ctx
               /\ path' = r.buf
               /\ closes' = IF opened THEN Append(closes, 1) ELSE closes
               /\ last' = [op |-> "load_cert", uri |-> b, store |-> 1,
                           env |-> env, ctl |-> ctl, pre |-> ctx,
                           parsed |-> r.ctx, pret |-> r.ret,
                           trace |-> r.trace, calls |-> calls,
                           ret |-> IF r.ret = CRASH THEN CRASH
                                   ELSE IF found THEN 1 ELSE 0,
                           result |-> IF found THEN "CERT" ELSE "NULL",
                           session |-> session]
               /\ registered' = IF r.ret = CRASH THEN registered
                                ELSE OSSL_STORE_LOADER_CTX_free
               /\ life' = life_after(life, b, calls)
    /\ ncert' = ncert + 1
    /\ UNCHANGED <<env, ctl, stores, nops, sel, threadvars>>

(***************************************************************************)
(* pkcs11_load_ssl_client_cert                                             *)
(***************************************************************************)

\* The certificates a token can hold: the id of the object, the issuer name
\* and whether X509_check_purpose accepts it for client authentication.
CertKinds ==
    {[id |-> Bytes("01"), issuer |-> "A", client_ok |-> TRUE],
     [id |-> Bytes("02"), issuer |-> "B", client_ok |-> TRUE],
     [id |-> Bytes("03"), issuer |-> "A", client_ok |-> FALSE]}

\* What pkcs11_search_next_cert enumerates, in order.
Enumerations == UNION {[1..n -> CertKinds] : n \in 0..MaxCerts}

\* The issuer lists (ca_dn) a handshake passes.
CaLists == {<<>>, <<"C", "A">>}

\* A match that takes the empty list to match nothing.
cert_issuer_match_nonempty(ca_dn, x) ==
    \E i \in 1..Len(ca_dn) : ca_dn[i] = x.issuer

cert_issuer_match(ca_dn, x) ==
    \/ Len(ca_dn) <= 0
    \/ \E i \in 1..Len(ca_dn) : ca_dn[i] = x.issuer

X509_check_purpose(x) == x.client_ok

\* The loop over pkcs11_search_next_cert from the i-th certificate on: the
\* index of the certificate it accepts, or 0 when the enumeration ends.
RECURSIVE select_cert(_, _, _)
select_cert(ca_dn, certs, i) ==
    IF i > Len(certs) THEN 0
    ELSE IF cert_issuer_match(ca_dn, certs[i]) /\ X509_check_purpose(certs[i])
    THEN i
    ELSE select_cert(ca_dn, certs, i + 1)

\* The calls up to pkcs11_search_start; the prompt is among them only when
\* the context holds no PIN.
ClientCertSteps(c) ==
    <<"initialize", "get_slot", "start_session">>
    \o (IF c.pin = NULL THEN <<"get_console_pin">> ELSE <<>>)
    \o <<"search_start">>

ClientCertArgs(c) ==
    <<c.module_path, NULL, NULL>>
    \o (IF c.pin = NULL THEN <<NULL>> ELSE <<>>)
    \o <<NULL>>

\* One pkcs11_search_next_cert call per certificate fetched, and the call
\* that reports the end when none was accepted.
fetch_calls(certs, k) ==
    [i \in 1..(IF k = 0 THEN Len(certs) + 1 ELSE k) |->
        Call("search_next_cert", NULL, i <= Len(certs))]

\* The calls after a certificate was accepted; fail2 = 1 when the private
\* key is not found, 2 when pkcs11_load_pkey gives no key.
KeySteps == <<"find_private_key", "load_pkey">>

pkcs11_load_ssl_client_cert(ca_dn) ==
    /\ Alive
    /\ ncert < MaxCertOps
    /\ \E fail \in 0..Len(ClientCertSteps(ctx)) :
        \E certs \in (IF fail = 0 THEN Enumerations ELSE {<<>>}) :
         \E fail2 \in (IF fail = 0 /\ select_cert(ca_dn, certs, 1) # 0
                       THEN 0..Len(KeySteps) ELSE {0}) :
          LET steps == ClientCertSteps(ctx)
              run == RunCalls(steps, ClientCertArgs(ctx), fail)
              opened == Succeeded(run, "start_session")
              prompted == Succeeded(run, "get_console_pin")
              typed == fail = 0 \/ steps[fail] = "search_start"
              k == IF fail = 0 THEN select_cert(ca_dn, certs, 1) ELSE 0
              id == IF k = 0 THEN ctx.id ELSE certs[k].id
              calls ==
                  run
                  \o (IF fail = 2 THEN <<Call("finalize", NULL, TRUE)>> ELSE <<>>)
                  \o (IF fail = 0 THEN fetch_calls(certs, k) ELSE <<>>)
                  \o (IF k = 0 THEN <<>>
                      ELSE <<Call("close_operation", NULL, TRUE)>>
                           \o RunCalls(KeySteps, <<id, NULL>>, fail2))
              ret == IF k # 0 /\ fail2 # 1 THEN 1 ELSE 0
          IN /\ ctx' = [ctx EXCEPT
                          !.pin = IF prompted THEN PromptPin ELSE @,
                          !.pinlen = IF prompted THEN strlen(PromptPin) ELSE @,
                          !.type = IF typed THEN Bytes("cert") ELSE @,
                          !.id = id,
                          !.idlen = IF k = 0 THEN @ ELSE Len(id)]
             /\ closes' = IF opened THEN Append(closes, 0) ELSE closes
             /\ sel' = [ca_dn |-> ca_dn, certs |-> certs,
                        fetched |-> IF fail # 0 THEN 0
                                    ELSE IF k = 0 THEN Len(certs) ELSE k,
                        pcert |-> IF k = 0 THEN <<>> ELSE <<certs[k]>>,
                        pkey |-> IF k # 0 /\ fail2 = 0 THEN "PKEY" ELSE "NULL",
                        ret |-> ret]
             /\ last' = [NoOp EXCEPT
                           !.op = "load_ssl_client_cert", !.env = env,
                           !.ctl = ctl, !.pre = ctx, !.parsed = ctx',
                           !.calls = calls, !.ret = ret,
                           !.result = IF ret = 1 THEN "CERT" ELSE "NULL",
                           !.session = IF opened THEN NewSession ELSE 0]
             /\ life' = [life EXCEPT
                           !.dangling = IF k # 0 THEN @ \ {"id"} ELSE @,
                           !.touched = @ \/ (life.dangling # {}
                                              /\ ReadsCriteria(calls))]
    /\ registered' = OSSL_STORE_LOADER_CTX_free
    /\ ncert' = ncert + 1
    /\ UNCHANGED <<env, ctl, path, stores, nops, threadvars>>

CertNext ==
    \/ \E v \in CtlPaths : CtrlModulePath(v)
    \/ \E v \in CtlPins : CtrlPin(v)
    \/ \E b \in CertBuffers : pkcs11_engine_load_cert(b)
    \/ \E ca_dn \in CaLists : pkcs11_load_ssl_client_cert(ca_dn)

CertSpec == Init /\ [][CertNext]_vars

(***************************************************************************)
(* Two threads in pkcs11_engine_load_private_key on one engine context     *)
(***************************************************************************)

\* The strings the threads pass.
ThreadUris ==
    {"pkcs11:id=01;module-path=/m;pin-value=1111",
     "pkcs11:module-path=/n;object=ab;pin-value=2222",
     "deadbeef"}
ThreadBuffers == {Buffer(u) : u \in ThreadUris}

ThreadSteps == KeyLoadSteps("find_private_key")

\* The position of a call in the function.
StepIndex(step) == CHOOSE i \in 1..Len(ThreadSteps) : ThreadSteps[i] = step

\* Thread t enters the function and runs pkcs11_parse on the context it got
\* from ENGINE_get_ex_data: the one context of the engine.  own is the
\* context as this thread's parse left it.
ThreadParse(t, b) ==
    /\ Alive
    /\ pc[t] = "idle"
    /\ \E r \in pkcs11_parse(ctx, b, 0, env) :
        /\ ctx' = r.ctx
        /\ path' = r.buf
        /\ req' = [req EXCEPT ![t] = [own |-> r.ctx, seen |-> <<>>]]
        /\ pc' = [pc EXCEPT ![t] = IF r.ret = 1 THEN ThreadSteps[1] ELSE "done"]
        /\ last' = [NoOp EXCEPT !.op = "thread_parse", !.uri = b,
                                !.pre = ctx, !.parsed = r.ctx,
                                !.pret = r.ret, !.trace = r.trace,
                                !.calls = r.calls,
                                !.ret = IF r.ret = CRASH THEN CRASH ELSE 0]
    /\ life' = life_after(life, b, <<>>)
    /\ UNCHANGED <<env, ctl, closes, stores, nops, registered, certvars>>

\* Thread t makes its next call, which reads its arguments from the context
\* at that moment.  Nothing between the calls takes ctx->lock.
ThreadCall(t) ==
    /\ Alive
    /\ pc[t] \notin {"idle", "done"}
    /\ \E ok \in BOOLEAN :
        LET i == StepIndex(pc[t])
        IN /\ req' = [req EXCEPT ![t].seen =
                         Append(@, Call(pc[t], KeyLoadArgs(ctx)[i], ok))]
           /\ pc' = [pc EXCEPT ![t] = IF ok /\ i < Len(ThreadSteps)
                                      THEN ThreadSteps[i + 1] ELSE "done"]
           /\ closes' = IF ok /\ pc[t] = "start_session"
                        THEN Append(closes, 0) ELSE closes
    /\ life' = [life EXCEPT !.touched = @ \/ (life.dangling # {}
                                                /\ pc[t] \in CriteriaReaders)]
    /\ UNCHANGED <<ctx, env, ctl, path, stores, last, nops, registered, certvars>>

ThreadNext ==
    \/ \E t \in Threads : \E b \in ThreadBuffers : ThreadParse(t, b)
    \/ \E t \in Threads : ThreadCall(t)

ThreadSpec == Init /\ [][ThreadNext]_vars

(***************************************************************************)
(* pkcs11_init and pkcs11_finish                                           *)
(***************************************************************************)

\* pkcs11_ctx_new: a zeroed context with a new lock.
pkcs11_ctx_new(l) ==
    [l EXCEPT !.attached = TRUE, !.created = @ + 1, !.lock = "live"]

\* pkcs11_init: a context is created and attached only when the engine has
\* none.
pkcs11_init ==
    /\ Alive
    /\ life.ncalls < MaxLifeCalls
    /\ life' = [(IF life.attached THEN life ELSE pkcs11_ctx_new(life))
                   EXCEPT !.ncalls = @ + 1]
    /\ ctx' = IF life.attached THEN ctx ELSE FreshCtx
    /\ last' = [NoOp EXCEPT !.op = "init", !.ret = 1]
    /\ UNCHANGED <<env, ctl, path, closes, stores, nops, registered>>
    /\ UNCHANGED <<certvars, threadvars>>

\* pkcs11_ctx_free: CRYPTO_THREAD_lock_free(ctx->lock), free(ctx->id),
\* free(ctx->label).  The pointers stay as they were; free(NULL) releases
\* nothing.
pkcs11_ctx_free(l, c) ==
    [l EXCEPT !.lock = "freed",
              !.dangling = @ \cup {f \in {"id", "label"} : c[f] # NULL},
              !.twice = @ \cup (IF l.lock = "freed" THEN {"lock"} ELSE {})
                          \cup {f \in l.dangling : c[f] # NULL}]

\* pkcs11_finish: releases the members of the context the engine holds; the
\* context stays attached to the engine.
pkcs11_finish ==
    /\ Alive
    /\ life.ncalls < MaxLifeCalls
    /\ life' = [pkcs11_ctx_free(life, ctx) EXCEPT !.ncalls = @ + 1]
    /\ last' = [NoOp EXCEPT !.op = "finish", !.ret = 1]
    /\ UNCHANGED <<ctx, env, ctl, path, closes, stores, nops, registered>>
    /\ UNCHANGED <<certvars, threadvars>>

\* The strings passed to the loads between init and finish.
LifeUris ==
    {"pkcs11:id=01;module-path=/m;pin-value=1111",
     "pkcs11:module-path=/m;object=ab;pin-value=1111",
     "deadbeef"}
LifeBuffers == {Buffer(u) : u \in LifeUris}

LifeNext ==
    \/ pkcs11_init
    \/ pkcs11_finish
    \/ \E v \in CtlPaths : CtrlModulePath(v)
    \/ \E b \in LifeBuffers : pkcs11_engine_load_private_key(b)

LifeSpec == Init /\ [][LifeNext]_vars

(***************************************************************************)
(* Next-state relation                                                     *)
(***************************************************************************)

\* The buffers an operation may be handed: a fresh one, or the buffer of the
\* previous operation again.
Buffers == Catalog \cup {path}

Next ==
    \/ \E v \in EnvPaths : SetEnv(v)
    \/ \E v \in CtlPaths : CtrlModulePath(v)
    \/ \E v \in CtlPins : CtrlPin(v)
    \/ \E b \in Buffers : pkcs11_engine_load_private_key(b)
    \/ \E b \in Buffers : pkcs11_engine_load_public_key(b)
    \/ \E b \in Buffers : pkcs11_store_open(b)
    \/ \E i \in 1..Len(stores) : pkcs11_store_load(i)
    \/ \E i \in 1..Len(stores) : pkcs11_store_close(i)

Spec == Init /\ [][Next]_vars

(***************************************************************************)
(* Listing and bare identifiers: the same operations over URIs that differ *)
(* in type, PIN and selector, and a string without the scheme              *)
(***************************************************************************)

ListUris ==
    {"pkcs11:module-path=/m;type=private",
     "pkcs11:module-path=/m;type=cert",
     "pkcs11:module-path=/m;type=public;object=ab",
     "pkcs11:module-path=/m;id=01;pin-value=1111",
     "pkcs11:module-path=/m",
     "pkcs11:type=private",
     "ab%20c;type=cert"}

ListBuffers == {Buffer(u) : u \in ListUris}

ListNext ==
    \/ \E v \in CtlPaths : CtrlModulePath(v)
    \/ \E v \in CtlPins : CtrlPin(v)
    \/ \E b \in ListBuffers : pkcs11_engine_load_private_key(b)
    \/ \E b \in ListBuffers : pkcs11_store_open(b)
    \/ \E i \in 1..Len(stores) : pkcs11_store_load(i)
    \/ \E i \in 1..Len(stores) : pkcs11_store_eof(i)
    \/ \E i \in 1..Len(stores) : pkcs11_store_close(i)

ListSpec == Init /\ [][ListNext]_vars


(***************************************************************************)
(* Field values: the same operations over URIs whose id= and model= values *)
(* differ in length, escapes and decoded zero bytes                        *)
(***************************************************************************)

FieldUris ==
    {"pkcs11:id=%01%00%02;module-path=/m;pin-value=1111",
     "pkcs11:id=%41%42;module-path=/m;pin-value=1111",
     "%41%00%42",
     "pkcs11:model=AB;module-path=/m",
     "pkcs11:model=AB%20;module-path=/m",
     "pkcs11:model=ABCDEFGHIJKLMNOP;module-path=/m",
     "pkcs11:model=ABCDEFGHIJKLMNOPQ;module-path=/m"}

FieldBuffers == {Buffer(u) : u \in FieldUris}

FieldNext ==
    \/ \E v \in CtlPaths : CtrlModulePath(v)
    \/ \E v \in CtlPins : CtrlPin(v)
    \/ \E b \in FieldBuffers : pkcs11_engine_load_private_key(b)
    \/ \E b \in FieldBuffers : pkcs11_store_open(b)
    \/ \E i \in 1..Len(stores) : pkcs11_store_close(i)

FieldSpec == Init /\ [][FieldNext]_vars

(***************************************************************************)
(* Properties                                                              *)
(***************************************************************************)

\* The operations that parse a URI, and those that log in.
ParseOps == {"load_private_key", "load_public_key", "store_open"}
KeyLoadOps == {"load_private_key", "load_public_key"}

\* The calls the parser itself makes; every other call goes to the token
\* module.
ParserCalls == {"pin_from_file", "getenv", "get_console_pin"}
NoTokenCall(calls) == \A i \in 1..Len(calls) : calls[i].fn \in ParserCalls

\* The string b as the URI grammar reads it: the non-empty segments between
\* the ';' of a pkcs11: URI, in order.
RECURSIVE SplitSegments(_, _, _, _)
SplitSegments(s, i, cur, acc) ==
    LET done == IF cur = <<>> THEN acc ELSE Append(acc, cur)
    IN IF i > Len(s) THEN done
       ELSE IF s[i] = SEMI THEN SplitSegments(s, i + 1, <<>>, done)
       ELSE SplitSegments(s, i + 1, Append(cur, s[i]), acc)

IsPkcs11Uri(b) == b # NULL /\ HasPrefix(CStr(b), K_scheme)

UriSegments(b) ==
    IF IsPkcs11Uri(b)
    THEN SplitSegments(Skip(CStr(b), Len(K_scheme)), 1, <<>>, <<>>)
    ELSE <<>>

\* The values of the segments of b that begin with key, in order.
ValuesOf(b, key) ==
    LET segs == UriSegments(b)
        F[i \in 0..Len(segs)] ==
            IF i = 0 THEN <<>>
            ELSE IF HasPrefix(segs[i], key)
                 THEN Append(F[i - 1], Skip(segs[i], Len(key)))
                 ELSE F[i - 1]
    IN F[Len(segs)]

\* The last operation parsed a URI and returned.
Parsed_(l) == l.op \in ParseOps /\ l.pret # CRASH

\* The selection criteria of a context, and a new context on which only
\* the controls have acted.
Criteria(c) ==
    <<c.id, c.label, c.type, c.slotid, c.token, c.manufacturer, c.model,
      c.serial, c.module_path, c.pin>>

NewCtxWith(controls) ==
    [FreshCtx EXCEPT !.module_path = controls.module_path,
                     !.pin = controls.pin,
                     !.pinlen = IF controls.pin = NULL THEN 0
                                ELSE strlen(controls.pin)]

(* C1: parsing depends only on the input string.  Whatever operations ran  *)
(* before, the last parse returns what a parse of the same string returns  *)
(* on a new context (carrying only what the controls set), and on success  *)
(* leaves the same criteria.                                               *)
C1_ParseDependsOnlyOnInput ==
    Parsed_(last) =>
        \E f \in pkcs11_parse(NewCtxWith(last.ctl), last.uri, last.store,
                              last.env) :
            /\ f.ret = last.pret
            /\ last.pret = 1 => Criteria(f.ctx) = Criteria(last.parsed)

(* C2: when a key-load operation returns, on any path, the session it      *)
(* opened has been closed exactly once and the module it initialized has   *)
(* been finalized.                                                         *)
C2_KeyLoadReleasesEverything ==
    (last.op \in KeyLoadOps /\ last.ret # CRASH) =>
        /\ last.session # 0 => closes[last.session] = 1
        /\ Succeeded(last.calls, "initialize") => Made(last.calls, "finalize")

(* C3: the session of an open store context has not been closed; the one   *)
(* pkcs11_store_close closes it once; and a pkcs11_store_open that fails   *)
(* after opening the session has closed it and finalized the module.       *)
C3_StoreSessionClosedOnce ==
    /\ \A i \in 1..Len(stores) : closes[stores[i].session] = 0
    /\ last.op = "store_close" => closes[last.session] = 1
    /\ (last.op = "store_open" /\ last.result = "NULL" /\ last.session # 0) =>
          /\ closes[last.session] = 1
          /\ Made(last.calls, "finalize")


\* The segments of b that begin with one of the keys, in order.
SegmentsWith(b, keys) ==
    LET segs == UriSegments(b)
        F[i \in 0..Len(segs)] ==
            IF i = 0 THEN <<>>
            ELSE IF \E k \in keys : HasPrefix(segs[i], k)
                 THEN Append(F[i - 1], segs[i])
                 ELSE F[i - 1]
    IN F[Len(segs)]

\* The PIN-bearing segments of b, and the case C4 and C5 are about.
PinSegments(b) == SegmentsWith(b, {K_pin_value, K_pin_source})
K_pin_source_file == K_pin_source \o K_file

HasPinValueAndFile(b) ==
    /\ ValuesOf(b, K_pin_value) # <<>>
    /\ ValuesOf(b, K_pin_source_file) # <<>>

PinCase(l) ==
    /\ Parsed_(l)
    /\ l.pre.pin = NULL
    /\ HasPinValueAndFile(l.uri)

LoginSecrets(l) ==
    {l.calls[i].arg : i \in {j \in 1..Len(l.calls) : l.calls[j].fn = "login"}}

\* A key load on a context whose PIN was set through the PIN control, with
\* a URI that carries pin-value=.
PresetPinCase(l) ==
    /\ l.op \in KeyLoadOps
    /\ l.pret # CRASH
    /\ l.ctl.pin # NULL
    /\ l.pre.pin = l.ctl.pin
    /\ ValuesOf(l.uri, K_pin_value) # <<>>

(* C5, as claimed: with a PIN pre-set through the control and a URI that   *)
(* carries pin-value=, the secret used for login is the URI's pin-value.   *)
C5_UriPinBeatsPreset ==
    PresetPinCase(last) =>
        /\ last.parsed.pin = ValuesOf(last.uri, K_pin_value)[1]
        /\ LoginSecrets(last) \subseteq {ValuesOf(last.uri, K_pin_value)[1]}

(* C5, amended: the pre-set PIN is kept; the URI's pin-value is ignored,   *)
(* the login uses the pre-set PIN and nothing is prompted or read.         *)
C5_PresetPinBeatsUri ==
    PresetPinCase(last) =>
        /\ last.parsed.pin = last.ctl.pin
        /\ LoginSecrets(last) \subseteq {last.ctl.pin}
        /\ ~Made(last.calls, "get_console_pin")
        /\ ~Made(last.calls, "pin_from_file")

\* A login made with the pre-set PIN although the URI carried another one.
C5_Witness ==
    /\ PresetPinCase(last)
    /\ ValuesOf(last.uri, K_pin_value)[1] # last.ctl.pin
    /\ LoginSecrets(last) = {last.ctl.pin}

\* A '%' of val that is not followed by two hex digits.
BadPercent(val) ==
    \E i \in 1..Len(val) :
        /\ val[i] = PERCENT
        /\ ~(i + 2 <= Len(val) /\ isxdigit(val[i + 1]) /\ isxdigit(val[i + 2]))

DecodedKeys ==
    {K_object, K_id, K_model, K_serial, K_token, K_manufacturer}

HasBadPercent(b) ==
    \E k \in DecodedKeys :
        \E i \in 1..Len(ValuesOf(b, k)) : BadPercent(ValuesOf(b, k)[i])

(* C6: a pkcs11: URI with a malformed percent escape in the value of       *)
(* object=, id=, model=, serial=, token= or manufacturer= fails to parse,  *)
(* in either context, and no call to the token module follows.             *)
C6_BadPercentFailsParse ==
    (last.op \in ParseOps /\ HasBadPercent(last.uri)) =>
        /\ last.pret = 0
        /\ NoTokenCall(last.calls)

\* What the first occurrence of an attribute stores: its value, decoded,
\* padded or converted as the attribute requires (NULL: nothing decodable).
Decoded(v) == urldecode(v)
Padded32(v) == IF urldecode(v) = NULL THEN NULL
               ELSE pkcs11_pad(urldecode(v), TokenWidth)
Padded16(v) == IF urldecode(v) = NULL THEN NULL
               ELSE pkcs11_pad(urldecode(v), ModelWidth)

\* A successful parse of a pkcs11: URI on a new context.
FreshParse(l) ==
    /\ l.op \in ParseOps
    /\ l.pret = 1
    /\ l.pre = FreshCtx
    /\ IsPkcs11Uri(l.uri)

Repeated(b, key) == Len(ValuesOf(b, key)) > 1

(* C7: on a new context, a repeated id=, object=, type=, module-path= or   *)
(* pin-value= stores the value of its first occurrence.                    *)
C7_FirstOccurrenceWins ==
    FreshParse(last) =>
        LET u == last.uri
            c == last.parsed
        IN /\ Repeated(u, K_id) => c.id = Decoded(ValuesOf(u, K_id)[1])
           /\ Repeated(u, K_object) =>
                  c.label = Decoded(ValuesOf(u, K_object)[1])
           /\ Repeated(u, K_type) => c.type = ValuesOf(u, K_type)[1]
           /\ Repeated(u, K_module_path) =>
                  c.module_path = Decoded(ValuesOf(u, K_module_path)[1])
           /\ Repeated(u, K_pin_value) =>
                  c.pin = ValuesOf(u, K_pin_value)[1]

(* C8: on a new context, a repeated token=, manufacturer=, model=,         *)
(* serial= or slot-id= stores the value of its first occurrence, a first   *)
(* slot-id=0 included.                                                     *)
C8_FirstPaddedFieldWins ==
    FreshParse(last) =>
        LET u == last.uri
            c == last.parsed
        IN /\ Repeated(u, K_token) => c.token = Padded32(ValuesOf(u, K_token)[1])
           /\ Repeated(u, K_manufacturer) =>
                  c.manufacturer = Padded32(ValuesOf(u, K_manufacturer)[1])
           /\ Repeated(u, K_model) => c.model = Padded16(ValuesOf(u, K_model)[1])
           /\ Repeated(u, K_serial) =>
                  c.serial = Padded16(ValuesOf(u, K_serial)[1])
           /\ Repeated(u, K_slot_id) =>
                  c.slotid = atoi(ValuesOf(u, K_slot_id)[1])

\* An absent or zero-length byte string.
Empty(x) == x = NULL \/ CStr(x) = <<>>

(* C9: in direct-key context a pkcs11: URI whose resulting id and label    *)
(* are both empty fails to parse; in listing context the selector check    *)
(* rejects nothing.                                                        *)
C9_EmptySelectorRejected ==
    (Parsed_(last) /\ IsPkcs11Uri(last.uri)) =>
        /\ (last.store = 0 /\ Empty(last.parsed.id) /\ Empty(last.parsed.label))
              => last.pret = 0
        /\ last.store = 1 => last.trace # "ID and OBJECT are null"

\* The module path the claimed resolution order gives: the control's, else
\* the URI's, else the environment's.
ResolvedModulePath(l) ==
    IF l.ctl.module_path # NULL THEN l.ctl.module_path
    ELSE IF ValuesOf(l.uri, K_module_path) # <<>>
    THEN Decoded(ValuesOf(l.uri, K_module_path)[1])
    ELSE l.env

(* C10: after a successful parse the module path is the control's, else    *)
(* the URI's, else the environment's; when none provides one the parse     *)
(* fails, nothing is prompted and no call to the token module is made.     *)
C10_ModulePathResolution ==
    Parsed_(last) =>
        /\ last.pret = 1 => last.parsed.module_path = ResolvedModulePath(last)
        /\ ResolvedModulePath(last) = NULL =>
              /\ last.pret = 0
              /\ ~Made(last.calls, "get_console_pin")
              /\ NoTokenCall(last.calls)


\* The calls of an operation that go to the token module, in order.
TokenCalls(calls) == SelectSeq(calls, LAMBDA c : c.fn \notin ParserCalls)

\* Every call of calls before position n went to the parser.
ParserCallsFirst(calls) ==
    \A i, j \in 1..Len(calls) :
        (calls[i].fn \in ParserCalls /\ calls[j].fn \notin ParserCalls) => i < j

(* C12: a public-key load with a URI that carries no PIN, on a context     *)
(* with no PIN, neither invokes the PIN prompt nor attempts a login.       *)
C12_PublicKeySkipsSecret ==
    (/\ last.op = "load_public_key"
     /\ last.pret # CRASH
     /\ last.pre.pin = NULL
     /\ last.uri # NULL
     /\ PinSegments(last.uri) = <<>>) =>
        /\ ~Made(last.calls, "get_console_pin")
        /\ ~Made(last.calls, "login")

(* C19: between bind and destroy the store loader stays registered for the *)
(* scheme, whatever store and certificate operations ran or failed.        *)
C19_LoaderStaysRegistered == registered

\* The order of the private-key load after the parse.
PrivateKeyOrder ==
    <<"initialize", "get_slot", "start_session", "login", "find_private_key",
      "load_pkey">>

(* C20: a private-key load parses first, then calls the token module in    *)
(* the order initialize, slot, session, login, key search, materialize,    *)
(* each call only after every earlier one succeeded; a failed parse is     *)
(* followed by no token-module call.                                       *)
C20_PrivateKeyStepOrder ==
    last.op = "load_private_key" =>
        LET tc == TokenCalls(last.calls)
        IN /\ Len(tc) <= Len(PrivateKeyOrder)
           /\ \A i \in 1..Len(tc) : tc[i].fn = PrivateKeyOrder[i]
           /\ \A i \in 1..(Len(tc) - 1) : tc[i].ok
           /\ ParserCallsFirst(last.calls)
           /\ last.pret # 1 => tc = <<>>
           /\ last.result = "PKEY" =>
                 /\ Len(tc) = Len(PrivateKeyOrder)
                 /\ tc[Len(tc)].ok

\* A private-key load whose login failed: the run stopped there.
C20_Witness ==
    /\ last.op = "load_private_key"
    /\ Len(TokenCalls(last.calls)) = 4
    /\ TokenCalls(last.calls)[4].fn = "login"
    /\ ~TokenCalls(last.calls)[4].ok
    /\ last.result = "NULL"


\* The outcomes of the segment phase of the last parse that reach the PIN
\* step: the criteria are parsed and a module path is at hand.
ScanOutcomes(l) ==
    {r \in parse_criteria(l.pre, l.uri, l.store) :
        r.ret = 1 /\ (r.ctx.module_path # NULL \/ l.env # NULL)}

TypeIsPrivate(c) == c.type # NULL /\ CStr(c.type) = K_private

Prompted(l) == Made(l.calls, "get_console_pin")

ActedOn(i) == last'.session = stores[i].session

C16_ModeFixedAtOpen ==
    /\ [](last.op = "store_open" /\ last.result = "CTX" =>
            (stores[Len(stores)].listflag = 1 <=>
                (last.parsed.id = NULL /\ last.parsed.label = NULL)))
    /\ [][\A i \in 1..Len(stores) :
            (last'.op = "store_load" /\ ActedOn(i)) =>
                /\ stores'[i].listflag = stores[i].listflag
                /\ stores[i].listflag \in {0, 1}
                /\ last'.result = "NAME" => stores[i].listflag = 1
                /\ last'.result \in {"CERT", "PKEY"} => stores[i].listflag = 0]_vars

\* A lookup context (a label was given) handed out a certificate.
C16_Witness ==
    /\ last.op = "store_load"
    /\ last.result = "CERT"
    /\ \E i \in 1..Len(stores) :
          stores[i].session = last.session /\ stores[i].listflag = 0

\* The last operation parsed a string without the scheme that decodes.
BareParse(l) ==
    /\ Parsed_(l)
    /\ l.uri # NULL
    /\ ~IsPkcs11Uri(l.uri)
    /\ urldecode(CStr(l.uri)) # NULL

(* C17: parsing a string without the scheme sets id to the decoded bytes   *)
(* of the whole string and leaves label, type, slot id, token,             *)
(* manufacturer, model and serial as they were; no PIN is taken from the   *)
(* string.                                                                 *)
C17_BareIdOnly ==
    BareParse(last) =>
        /\ last.parsed.id = urldecode(CStr(last.uri))
        /\ last.parsed.label = last.pre.label
        /\ last.parsed.type = last.pre.type
        /\ last.parsed.slotid = last.pre.slotid
        /\ last.parsed.token = last.pre.token
        /\ last.parsed.manufacturer = last.pre.manufacturer
        /\ last.parsed.model = last.pre.model
        /\ last.parsed.serial = last.pre.serial
        /\ ~Made(last.calls, "pin_from_file")
        /\ last.parsed.pin = last.pre.pin \/ Prompted(last)
        /\ last.pre = FreshCtx =>
              /\ last.parsed.label = NULL
              /\ last.parsed.type = NULL
              /\ last.parsed.slotid = 0

\* A string with an escape, a semicolon and key= text became the id, whole.
C17_Witness ==
    /\ BareParse(last)
    /\ last.pret = 1
    /\ last.parsed.id = Bytes("ab c;type=cert")
    /\ last.parsed.type = NULL


\* A certificate the selection may accept: its issuer is on the list (or the
\* list is empty) and it is usable for client authentication.
Acceptable(ca_dn, x) ==
    /\ ca_dn = <<>> \/ \E i \in 1..Len(ca_dn) : ca_dn[i] = x.issuer
    /\ x.client_ok

\* The last operation was a client-certificate selection that got to
\* enumerate the certificates.
Enumerated(l) ==
    l.op = "load_ssl_client_cert" /\ Succeeded(l.calls, "search_start")

(* C13: when the client-certificate selection returns failure, no          *)
(* certificate and no key are handed to the caller.                        *)
C13_FailureHandsOutNothing ==
    (last.op = "load_ssl_client_cert" /\ sel.ret = 0) =>
        /\ sel.pcert = <<>>
        /\ sel.pkey = "NULL"

(* C14: the selection hands out the first certificate of the enumeration   *)
(* that is acceptable, fetches none after it and skips every one before    *)
(* it; when no certificate is acceptable it fetches them all, hands out    *)
(* none and returns failure.                                               *)
C14_FirstAcceptableCert ==
    Enumerated(last) =>
        LET ok == {i \in 1..Len(sel.certs) : Acceptable(sel.ca_dn, sel.certs[i])}
        IN IF ok = {}
           THEN /\ sel.pcert = <<>>
                /\ sel.ret = 0
                /\ sel.fetched = Len(sel.certs)
                /\ Count(last.calls, "search_next_cert") = Len(sel.certs) + 1
           ELSE \E k \in ok :
                /\ \A i \in ok : k <= i
                /\ sel.pcert = <<sel.certs[k]>>
                /\ sel.fetched = k
                /\ Count(last.calls, "search_next_cert") = k
                /\ last.parsed.id = sel.certs[k].id

\* With a non-empty issuer list, a usable certificate of another issuer was
\* skipped and the second certificate was accepted.
C14_Witness ==
    /\ Enumerated(last)
    /\ sel.ca_dn # <<>>
    /\ Len(sel.certs) = 2
    /\ sel.certs[1].client_ok
    /\ ~Acceptable(sel.ca_dn, sel.certs[1])
    /\ sel.pcert = <<sel.certs[2]>>
    /\ sel.ret = 1


(* C18: requests running concurrently on one engine context are            *)
(* serialized: every call of a request reads the criteria and the PIN that *)
(* this request's own parse left in the context, never what another        *)
(* request wrote meanwhile.                                                *)
C18_RequestsSerialized ==
    \A t \in Threads :
        \A j \in 1..Len(req[t].seen) :
            req[t].seen[j].arg = KeyLoadArgs(req[t].own)[j]


(* C24: parsing leaves the caller's string unchanged: when pkcs11_parse    *)
(* has returned, with success or failure, the buffer holds the bytes it    *)
(* held before the call.                                                   *)
C24_ParseLeavesBufferUnchanged ==
    Parsed_(last) => path = last.uri


\* The last parse wrote the id: a string without the scheme always does, a
\* pkcs11: URI does when no id was set before and one is set after.
IdWritten(l) ==
    /\ Parsed_(l)
    /\ l.uri # NULL
    /\ l.parsed.id # NULL
    /\ \/ ~IsPkcs11Uri(l.uri)
       \/ l.pre.id = NULL /\ ValuesOf(l.uri, K_id) # <<>>

(* C21: the stored id length is the number of bytes that percent-decoding  *)
(* the id= value (or the string without scheme) produced, decoded zero     *)
(* bytes included.                                                         *)
C21_IdLengthCountsDecodedBytes ==
    IdWritten(last) => last.parsed.idlen = Len(last.parsed.id)

\* A value without its trailing spaces.
RECURSIVE TrimSpaces(_)
TrimSpaces(v) ==
    IF v # <<>> /\ v[Len(v)] = SPACE
    THEN TrimSpaces(SubSeq(v, 1, Len(v) - 1))
    ELSE v

Spaces(n) == [i \in 1..n |-> SPACE]

\* The decoded model= values of the catalog.
ModelValues ==
    {urldecode(ValuesOf(b, K_model)[1]) :
        b \in {c \in FieldBuffers : ValuesOf(c, K_model) # <<>>}}

\* The last operation parsed, to the end, a URI with one model= value.
ModelParsed(l) ==
    /\ l.op \in ParseOps
    /\ l.pret = 1
    /\ Len(ValuesOf(l.uri, K_model)) = 1

(* C22: the padded model field is exactly ModelWidth bytes; it is the      *)
(* decoded value followed by spaces when the value is at most ModelWidth   *)
(* bytes long; and no other decoded value pads to the same field unless    *)
(* the two are equal once trailing spaces are removed.                     *)
C22_PaddingIsExact ==
    ModelParsed(last) =>
        LET v == urldecode(ValuesOf(last.uri, K_model)[1])
            field == last.parsed.model
        IN /\ Len(field) = ModelWidth
           /\ Len(v) <= ModelWidth =>
                  field = v \o Spaces(ModelWidth - Len(v))
           /\ \A u \in ModelValues :
                  pkcs11_pad(u, ModelWidth) = field =>
                      TrimSpaces(u) = TrimSpaces(v)


(* C23: in object-lookup mode a load that does not signal the end of the   *)
(* enumeration returns an object, whatever its class: nothing is returned  *)
(* only together with eof.                                                 *)
C23_ObjectLoadReturnsObject ==
    \A i \in 1..Len(stores) :
        (/\ last.op = "store_load"
         /\ last.session = stores[i].session
         /\ stores[i].listflag = 0
         /\ last.result = "NULL")
        => stores[i].eof # 0


(* C25: over any sequence of pkcs11_init, resolution operations and        *)
(* pkcs11_finish, the lock, the id and the label of the context are        *)
(* released at most once, no operation reads a member that pkcs11_finish   *)
(* released, and the context is created at most once while attached.       *)
C25_MembersReleasedOnce ==
    /\ life.twice = {}
    /\ ~life.touched
    /\ life.created <= 1

====
